---- MODULE Spec2Model ----
(***************************************************************************)
(* Model of src-tauri/src/lib.rs: the Panoptic application bootstrapper.   *)
(*                                                                         *)
(* run() configures a host builder (eight plugins, a setup hook, a command *)
(* table), hands it to the host's run(context) and expect()s the result.   *)
(* The host (the framework behind Builder) is the environment: what it may *)
(* do with the things run() gives it is modelled by the actions HostStart, *)
(* SetupHook, IssueCall, BeginCall, FinishCall, CloseWindow, LoopExit and  *)
(* LoopError.                                                              *)
(***************************************************************************)
EXTENDS Naturals, Sequences, FiniteSets

VARIABLES
    debug,          \* cfg(debug_assertions) of the build
    version,        \* CARGO_PKG_VERSION baked into the binary
    cfgWindows,     \* window labels declared by generate_context!()
    state,          \* lifecycle of the bootstrap
    pc,             \* index of the next builder call of run()'s chain
    plugins,        \* capability providers attached so far, in order
    setupHook,      \* TRUE once .setup(closure) stored the closure
    commands,       \* the command table given to .invoke_handler
    hostBuilt,      \* TRUE once run(context) has built the host
    windows,        \* labels of the windows that are open
    lastClosed,     \* TRUE once the last open window has been closed
    setupCalls,     \* number of times the setup closure has run
    lookups,        \* number of get_webview_window("main") calls
    devtools,       \* number of open_devtools() requests
    runResult,      \* what run(context) returned: "none", "Ok" or "Err"
    diag,           \* diagnostics written by the process, in order
    exit,           \* how the process ended: "none", "clean", "fatal", "panic"
    calls,          \* command invocations issued by the UI layer
    handlerCalls    \* number of times a command handler has been entered

vars == <<debug, version, cfgWindows, state, pc, plugins, setupHook, commands,
          hostBuilt, windows, lastClosed, setupCalls, lookups, devtools,
          runResult, diag, exit, calls, handlerCalls>>

(***************************************************************************)
(* Bounds of the model.                                                    *)
(***************************************************************************)
MaxCalls == 3

Versions == {"0.1.0", "1.2.3"}

WindowLabels == {"main", "aux"}

CommandNames == {"get_app_version", "get_os_name"}

(***************************************************************************)
(* Constants of the program.                                               *)
(***************************************************************************)
FatalMsg == "error while running Panoptic"

UnwrapMsg == "called Option::unwrap() on a None value"

MainLabel == "main"

Plugin(n) == [kind |-> "plugin", name |-> n]

\* A transposition of two adjacent .plugin() lines.
ChainSwapped ==
    << Plugin("opener"), Plugin("sql"), Plugin("http"), Plugin("os"),
       Plugin("clipboard"), Plugin("notification"), Plugin("dialog"),
       Plugin("fs"),
       [kind |-> "setup", name |-> "setup"],
       [kind |-> "invoke_handler", name |-> "invoke_handler"] >>

\* The builder calls of run(), in the order they are written.
Chain ==
    << Plugin("opener"), Plugin("sql"), Plugin("os"), Plugin("http"),
       Plugin("clipboard"), Plugin("notification"), Plugin("dialog"),
       Plugin("fs"),
       [kind |-> "setup", name |-> "setup"],
       [kind |-> "invoke_handler", name |-> "invoke_handler"] >>

\* tauri::generate_handler![get_app_version]
GeneratedHandler == {"get_app_version"}

NoResult == [kind |-> "none", val |-> ""]

Init ==
    /\ debug \in BOOLEAN
    /\ version \in Versions
    /\ cfgWindows \in SUBSET WindowLabels
    /\ state = "Unstarted"
    /\ pc = 0
    /\ plugins = << >>
    /\ setupHook = FALSE
    /\ commands = {}
    /\ hostBuilt = FALSE
    /\ windows = {}
    /\ lastClosed = FALSE
    /\ setupCalls = 0
    /\ lookups = 0
    /\ devtools = 0
    /\ runResult = "none"
    /\ diag = << >>
    /\ exit = "none"
    /\ calls = << >>
    /\ handlerCalls = 0

buildVars == <<debug, version, cfgWindows>>

(***************************************************************************)
(* run(): the builder chain.                                               *)
(***************************************************************************)
\* tauri::Builder::default()
BuilderDefault ==
    /\ state = "Unstarted"
    /\ state' = "Building"
    /\ pc' = 1
    /\ UNCHANGED <<buildVars, plugins, setupHook, commands, hostBuilt, windows,
                   lastClosed, setupCalls, lookups, devtools, runResult, diag,
                   exit, calls, handlerCalls>>

\* The chain moves to its next call; after the last one the builder is
\* configured and only .run(context) remains.
Advance ==
    /\ pc' = pc + 1
    /\ state' = IF pc = Len(Chain) THEN "Configured" ELSE state

AtCall(kind) ==
    /\ state = "Building"
    /\ pc \in 1..Len(Chain)
    /\ Chain[pc].kind = kind

\* .plugin(...)
AttachPlugin ==
    /\ AtCall("plugin")
    /\ plugins' = Append(plugins, Chain[pc].name)
    /\ Advance
    /\ UNCHANGED <<buildVars, setupHook, commands, hostBuilt, windows,
                   lastClosed, setupCalls, lookups, devtools, runResult, diag,
                   exit, calls, handlerCalls>>

\* A .setup() whose closure is also called on the spot.
RegisterSetupEager ==
    /\ AtCall("setup")
    /\ setupHook' = TRUE
    /\ setupCalls' = setupCalls + 1
    /\ Advance
    /\ UNCHANGED <<buildVars, plugins, commands, hostBuilt, windows,
                   lastClosed, lookups, devtools, runResult, diag,
                   exit, calls, handlerCalls>>

\* .setup(|app| { ... }): the closure is stored, not run.
RegisterSetup ==
    /\ AtCall("setup")
    /\ setupHook' = TRUE
    /\ Advance
    /\ UNCHANGED <<buildVars, plugins, commands, hostBuilt, windows,
                   lastClosed, setupCalls, lookups, devtools, runResult, diag,
                   exit, calls, handlerCalls>>

\* .invoke_handler(tauri::generate_handler![get_app_version])
InvokeHandler ==
    /\ AtCall("invoke_handler")
    /\ commands' = GeneratedHandler
    /\ Advance
    /\ UNCHANGED <<buildVars, plugins, setupHook, hostBuilt, windows,
                   lastClosed, setupCalls, lookups, devtools, runResult, diag,
                   exit, calls, handlerCalls>>

(***************************************************************************)
(* run(): .run(context).expect(...), and the host behind it.               *)
(***************************************************************************)
\* The process ends: its windows go with it.
Terminate(cause, msgs) ==
    /\ state' = "Terminated"
    /\ exit' = cause
    /\ diag' = diag \o msgs
    /\ windows' = {}

\* An expect that reports whatever run(context) returned.
ExpectAlways(result) ==
    Terminate("fatal", <<FatalMsg>>)

\* An expect that reports the error and lets the host be started again.
ExpectRetry(result) ==
    IF result = "Err"
    THEN /\ diag' = Append(diag, FatalMsg)
         /\ state' = "Configured"
         /\ UNCHANGED <<exit, windows>>
    ELSE Terminate("clean", << >>)

\* .expect("error while running Panoptic"): panics with the message on Err;
\* on Ok run() returns and the process exits.
Expect(result) ==
    IF result = "Err"
    THEN Terminate("fatal", <<FatalMsg>>)
    ELSE Terminate("clean", << >>)

\* .run(tauri::generate_context!()) builds the host and creates the windows
\* the context declares.
HostStart ==
    /\ state = "Configured"
    /\ ~hostBuilt
    /\ hostBuilt' = TRUE
    /\ windows' = cfgWindows
    /\ UNCHANGED <<buildVars, state, pc, plugins, setupHook, commands,
                   lastClosed, setupCalls, lookups, devtools, runResult, diag,
                   exit, calls, handlerCalls>>

\* .run(tauri::generate_context!()) fails to start the host and returns Err.
HostStartFails ==
    /\ state = "Configured"
    /\ ~hostBuilt
    /\ runResult' = "Err"
    /\ Expect(runResult')
    /\ UNCHANGED <<buildVars, pc, plugins, setupHook, commands, hostBuilt,
                   lastClosed, setupCalls, lookups, devtools, calls,
                   handlerCalls>>

\* A closure that skips the panel when the window is missing.
SetupClosureLenient ==
    /\ lookups' = IF debug THEN lookups + 1 ELSE lookups
    /\ devtools' = IF debug /\ MainLabel \in windows
                   THEN devtools + 1 ELSE devtools
    /\ state' = "Running"
    /\ UNCHANGED <<diag, exit, windows>>

\* A closure whose block is not under cfg(debug_assertions).
SetupClosureNoCfg ==
    /\ lookups' = lookups + 1
    /\ IF MainLabel \in windows
       THEN /\ devtools' = devtools + 1
            /\ state' = "Running"
            /\ UNCHANGED <<diag, exit, windows>>
       ELSE /\ devtools' = devtools
            /\ Terminate("panic", <<UnwrapMsg>>)

\* The body of the setup closure.  Under cfg(debug_assertions) it looks the
\* "main" window up, unwraps the lookup (a panic when there is none) and asks
\* the window for its devtools; then, and in a release build at once, it
\* returns Ok(()) and the host goes on to its event loop.
SetupClosure ==
    IF debug
    THEN /\ lookups' = lookups + 1
         /\ IF MainLabel \in windows
            THEN /\ devtools' = devtools + 1
                 /\ state' = "Running"
                 /\ UNCHANGED <<diag, exit, windows>>
            ELSE /\ devtools' = devtools
                 /\ Terminate("panic", <<UnwrapMsg>>)
    ELSE /\ state' = "Running"
         /\ UNCHANGED <<lookups, devtools, diag, exit, windows>>

\* The host calls the stored closure when it has been built by run(context)
\* and has not entered its loop.
SetupEnabled ==
    /\ state = "Configured"
    /\ hostBuilt
    /\ setupHook

\* The host runs the setup hook.
SetupHook ==
    /\ SetupEnabled
    /\ setupCalls' = setupCalls + 1
    /\ SetupClosure
    /\ UNCHANGED <<buildVars, pc, plugins, setupHook, commands, hostBuilt,
                   lastClosed, runResult, calls, handlerCalls>>

(***************************************************************************)
(* The command bridge.                                                     *)
(***************************************************************************)
\* A handler that caches per call and hands out an empty cache afterwards.
get_app_version_cached ==
    IF handlerCalls > 1 THEN "" ELSE version

\* fn get_app_version() -> String { env!("CARGO_PKG_VERSION").to_string() }
get_app_version ==
    version

\* The UI layer of an open window invokes a command by name.
IssueCall ==
    /\ hostBuilt
    /\ state \in {"Configured", "Running"}
    /\ windows # {}
    /\ Len(calls) < MaxCalls
    /\ \E c \in CommandNames :
          calls' = Append(calls, [cmd |-> c, status |-> "pending",
                                  result |-> NoResult])
    /\ UNCHANGED <<buildVars, state, pc, plugins, setupHook, commands,
                   hostBuilt, windows, lastClosed, setupCalls, lookups,
                   devtools, runResult, diag, exit, handlerCalls>>

\* The event loop dispatches invocations.
DispatchEnabled ==
    state = "Running"

\* The host looks the name up in the command table and enters the handler;
\* a name the table lacks is answered with an error.
BeginCall(i) ==
    /\ DispatchEnabled
    /\ calls[i].status = "pending"
    /\ IF calls[i].cmd \in commands
       THEN /\ calls' = [calls EXCEPT ![i].status = "running"]
            /\ handlerCalls' = handlerCalls + 1
       ELSE /\ calls' = [calls EXCEPT ![i].status = "done",
                                      ![i].result = [kind |-> "err",
                                                     val |-> "not found"]]
            /\ handlerCalls' = handlerCalls
    /\ UNCHANGED <<buildVars, state, pc, plugins, setupHook, commands,
                   hostBuilt, windows, lastClosed, setupCalls, lookups,
                   devtools, runResult, diag, exit>>

\* A handler that takes itself out of the table once it has answered.
FinishCallOnce(i) ==
    /\ DispatchEnabled
    /\ calls[i].status = "running"
    /\ calls' = [calls EXCEPT ![i].status = "done",
                              ![i].result = [kind |-> "ok",
                                             val |-> get_app_version]]
    /\ commands' = commands \ {calls[i].cmd}
    /\ UNCHANGED <<buildVars, state, pc, plugins, setupHook,
                   hostBuilt, windows, lastClosed, setupCalls, lookups,
                   devtools, runResult, diag, exit, handlerCalls>>

\* The handler returns and its String is the invocation's response.
FinishCall(i) ==
    /\ DispatchEnabled
    /\ calls[i].status = "running"
    /\ calls' = [calls EXCEPT ![i].status = "done",
                              ![i].result = [kind |-> "ok",
                                             val |-> get_app_version]]
    /\ UNCHANGED <<buildVars, state, pc, plugins, setupHook, commands,
                   hostBuilt, windows, lastClosed, setupCalls, lookups,
                   devtools, runResult, diag, exit, handlerCalls>>

(***************************************************************************)
(* The event loop.                                                         *)
(***************************************************************************)
\* A window is closed; closing the last one asks the loop to exit.
CloseWindow ==
    /\ state = "Running"
    /\ \E w \in windows :
          /\ windows' = windows \ {w}
          /\ lastClosed' = (windows' = {})
    /\ UNCHANGED <<buildVars, state, pc, plugins, setupHook, commands,
                   hostBuilt, setupCalls, lookups, devtools, runResult, diag,
                   exit, calls, handlerCalls>>

\* The last window is closed: run(context) returns Ok and run() returns.
LoopExit ==
    /\ state = "Running"
    /\ lastClosed
    /\ runResult' = "Ok"
    /\ Expect(runResult')
    /\ UNCHANGED <<buildVars, pc, plugins, setupHook, commands, hostBuilt,
                   lastClosed, setupCalls, lookups, devtools, calls,
                   handlerCalls>>

\* The loop fails while it serves its windows: run(context) returns Err.
LoopError ==
    /\ state = "Running"
    /\ ~lastClosed
    /\ runResult' = "Err"
    /\ Expect(runResult')
    /\ UNCHANGED <<buildVars, pc, plugins, setupHook, commands, hostBuilt,
                   lastClosed, setupCalls, lookups, devtools, calls,
                   handlerCalls>>

Next ==
    \/ BuilderDefault
    \/ AttachPlugin
    \/ RegisterSetup
    \/ InvokeHandler
    \/ HostStart
    \/ HostStartFails
    \/ SetupHook
    \/ IssueCall
    \/ \E i \in 1..Len(calls) : BeginCall(i)
    \/ \E i \in 1..Len(calls) : FinishCall(i)
    \/ CloseWindow
    \/ LoopExit
    \/ LoopError

Spec == Init /\ [][Next]_vars

\* The host's loop keeps taking its steps; the UI and the user need not.
FairSpec ==
    /\ Init
    /\ [][Next]_vars
    /\ WF_vars(LoopExit)

(***************************************************************************)
(* Properties.                                                             *)
(***************************************************************************)
Done(i) == calls[i].status = "done"

Answered(i) == calls[i].cmd = "get_app_version" /\ Done(i)

\* C1: every get_app_version invocation that has returned, whatever came
\* before it, returned the Ok outcome carrying the build's version string,
\* and that string is not empty.
GetAppVersionReturnsBuildVersion ==
    \A i \in 1..Len(calls) :
        Answered(i) =>
            /\ calls[i].result.kind = "ok"
            /\ calls[i].result.val = version
            /\ calls[i].result.val # ""

\* Two invocations of get_app_version have returned after an invocation of
\* another name was answered in between.
GetAppVersionWitness ==
    /\ Len(calls) = 3
    /\ Answered(1)
    /\ calls[2].cmd # "get_app_version" /\ Done(2)
    /\ Answered(3)

\* C2: in a debug build whose "main" window exists when the setup hook runs
\* the developer panel is requested exactly once (never more than once at
\* any time, once as soon as the hook has run); in a debug build without a
\* "main" window the state never becomes Running and the hook's run ends the
\* process abnormally.
DebugPanelOnceOrAbort ==
    /\ [](debug /\ MainLabel \in cfgWindows =>
            /\ devtools <= 1
            /\ (setupCalls > 0 => devtools = 1))
    /\ [](debug /\ MainLabel \notin cfgWindows /\ setupCalls > 0 =>
            /\ devtools = 0
            /\ state = "Terminated"
            /\ exit = "panic")
    /\ [][debug /\ MainLabel \notin cfgWindows => state' # "Running"]_vars

\* A debug build without a "main" window has run its setup hook.
DebugPanelWitness ==
    /\ debug
    /\ MainLabel \notin cfgWindows
    /\ cfgWindows # {}
    /\ setupCalls = 1

\* C3: in a release build, with or without a "main" window, the window is
\* never looked up and the developer panel never requested, and the setup
\* hook, once run, has returned normally (no panic, the host is running or
\* has ended otherwise).
ReleaseNoPanel ==
    ~debug =>
        /\ lookups = 0
        /\ devtools = 0
        /\ exit # "panic"
        /\ (setupCalls > 0 => state \in {"Running", "Terminated"})

\* A release build without a "main" window is running after its setup hook.
ReleaseNoPanelWitness ==
    /\ ~debug
    /\ MainLabel \notin cfgWindows
    /\ setupCalls = 1
    /\ state = "Running"

hostVars == <<buildVars, state, pc, plugins, setupHook, commands, hostBuilt,
              windows, lastClosed, setupCalls, lookups, devtools, runResult,
              diag, exit>>

\* C4: get_app_version invocations that overlap in any way all return the
\* identical result, and no step of an invocation changes the lifecycle
\* state, the command table, the plugin list or anything else of the host.
ConcurrentCallsAgree ==
    /\ [](\A i, j \in 1..Len(calls) :
            Answered(i) /\ Answered(j) => calls[i].result = calls[j].result)
    /\ [][calls' # calls => UNCHANGED hostVars]_vars

\* One invocation has returned while two others are inside the handler.
ConcurrentCallsWitness ==
    \E i, j, k \in 1..Len(calls) :
        /\ i # j
        /\ calls[i].status = "running"
        /\ calls[j].status = "running"
        /\ Answered(k)

PluginOrder ==
    <<"opener", "sql", "os", "http", "clipboard", "notification", "dialog",
      "fs">>

\* C5: the attached providers are always a prefix of opener, SQL, OS-info,
\* HTTP, clipboard, notification, dialog, filesystem, none twice, and all
\* eight are attached once the builder is configured, so before the host is
\* built or its loop entered.
PluginsInOrder ==
    /\ Len(plugins) <= Len(PluginOrder)
    /\ \A k \in 1..Len(plugins) : plugins[k] = PluginOrder[k]
    /\ \A k, l \in 1..Len(plugins) : plugins[k] = plugins[l] => k = l
    /\ (state \in {"Configured", "Running"} \/ hostBuilt =>
            plugins = PluginOrder)

\* The loop is running with all eight providers attached.
PluginsWitness ==
    /\ state = "Running"
    /\ Len(plugins) = 8

\* C6: the setup hook runs at most once; it runs only from the Configured
\* state, with all plugins attached, the command table registered and the
\* host built; the host is Running, and handlers are entered, only after
\* the hook has run; the count never changes while Running or Terminated.
SetupHookOnce ==
    /\ [](/\ setupCalls <= 1
          /\ (state = "Running" => setupCalls = 1)
          /\ (handlerCalls > 0 => setupCalls = 1))
    /\ [][setupCalls' # setupCalls =>
            /\ state = "Configured"
            /\ plugins = PluginOrder
            /\ commands = GeneratedHandler
            /\ hostBuilt
            /\ setupCalls' = 1
            /\ state' \in {"Running", "Terminated"}]_vars

\* The hook has run and the process has since ended through its loop.
SetupHookWitness ==
    /\ setupCalls = 1
    /\ state = "Terminated"
    /\ runResult = "Ok"

Emitted(msg) == \E k \in 1..Len(diag) : diag[k] = msg

\* C7: the fatal diagnostic is emitted exactly when run(context) returned
\* an error (the host failed to start or its loop failed), and then once;
\* a process ended by run(context) returning Ok, its windows closed, has
\* emitted nothing; every
\* failure leaves the process Terminated, and Terminated is never left.
FatalDiagnosticIffRunError ==
    /\ [](/\ Emitted(FatalMsg) <=> runResult = "Err"
          /\ Len(diag) <= 1
          /\ (state = "Terminated" /\ runResult = "Ok" => diag = << >>)
          /\ (runResult = "Err" \/ exit \in {"fatal", "panic"} =>
                state = "Terminated"))
    /\ [][state = "Terminated" => state' = "Terminated"]_vars

\* The loop failed after the setup hook and the diagnostic was written.
FatalDiagnosticWitness ==
    /\ setupCalls = 1
    /\ runResult = "Err"
    /\ diag = <<FatalMsg>>
    /\ state = "Terminated"

Rank(s) ==
    CASE s = "Unstarted" -> 1
      [] s = "Building" -> 2
      [] s = "Configured" -> 3
      [] s = "Running" -> 4
      [] s = "Terminated" -> 5

\* C10: every change of the lifecycle state goes to the next state of
\* Unstarted, Building, Configured, Running, Terminated, or to Terminated
\* with an error exit; Running is left only for Terminated; Terminated is
\* never left; an invocation is dispatched (its record changes, a handler
\* is entered) only in the Running state.
LifecycleForward ==
    /\ [][state' # state =>
            \/ Rank(state') = Rank(state) + 1
            \/ state' = "Terminated" /\ exit' \in {"fatal", "panic"}]_vars
    /\ [][state = "Running" => state' \in {"Running", "Terminated"}]_vars
    /\ [][state = "Terminated" => UNCHANGED vars]_vars
    /\ [][(\/ handlerCalls' # handlerCalls
           \/ \E i \in 1..Len(calls) : calls'[i] # calls[i]) =>
            state = "Running" /\ state' = "Running"]_vars

\* A process that answered a command has ended by closing its windows.
LifecycleWitness ==
    /\ state = "Terminated"
    /\ exit = "clean"
    /\ handlerCalls > 0
====
